---- MODULE Spec2Model ----
(***************************************************************************)
(* Model of aserto-dev/boltdb: Store.ReadSession / Store.WriteSession and  *)
(* the Session operations, over an abstract bbolt transaction.             *)
(*                                                                         *)
(* A database image is a record                                            *)
(*    bk : the set of bucket paths (a path is a sequence of names),        *)
(*    kv : the leaf key/value pairs, a function on <<bucket path, key>>,   *)
(*    sq : the sequence counter of every bucket.                           *)
(* Names, keys, tokens and values are byte strings: sequences of naturals. *)
(* A nil []byte is NilBytes; stored values are non-empty byte strings.     *)
(***************************************************************************)
EXTENDS Integers, Sequences, FiniteSets, TLC

\* ------------------------------------------------------------------ bounds
MaxOps == 2          \* Session method calls over the life of the store
MaxSessions == 2     \* sessions opened over the life of the store
MaxSeq == 2          \* cap of a bucket's sequence counter
MaxChildren == 210   \* children of the listed container (paging runs)
MaxScan == 12        \* children of the scanned container (scan runs)

\* ------------------------------------------------------- program constants
pageSize == 100

\* ------------------------------------------------------------ input sets
KeySet == {<<>>, <<1>>, <<1, 1>>}
ValSet == {<<7>>, <<8>>}
PathSet == {<<>>, <<<<1>>>>, <<<<1>>, <<1>>>>, <<<<2>>>>}
TokSet == {<<>>, <<1, 1>>}
SIDs == {"R", "W"}

NilBytes == <<>>

\* ---------------------------------------------------------------- errors
NoErr == "nil"
ErrPathNotFound == "ErrPathNotFound"
ErrKeyNotFound == "ErrKeyNotFound"
ErrTxNotWritable == "bolt.ErrTxNotWritable"
ErrBucketNameRequired == "bolt.ErrBucketNameRequired"
ErrBucketNotFound == "bolt.ErrBucketNotFound"
ErrIncompatibleValue == "bolt.ErrIncompatibleValue"
ErrKeyRequired == "bolt.ErrKeyRequired"
Panic == "panic: slice bounds out of range"

\* ------------------------------------------------------ byte-string order
\* bytes.Compare(a, b) < 0
BytesLess(a, b) ==
    \E i \in 1..Len(b) :
        /\ \A j \in 1..(i - 1) : j <= Len(a) /\ a[j] = b[j]
        /\ (i > Len(a) \/ a[i] < b[i])

BytesLeq(a, b) == a = b \/ BytesLess(a, b)

\* bytes.HasPrefix(k, prefix)
HasPrefix(k, prefix) == Len(prefix) <= Len(k) /\ SubSeq(k, 1, Len(prefix)) = prefix

\* ------------------------------------------------------- database images
EmptyDB == [bk |-> {}, kv |-> [x \in {} |-> NilBytes], sq |-> [q \in {} |-> 0]]

Child(b, name) == Append(b, name)

IsBucket(db, b, name) == Child(b, name) \in db.bk
IsLeaf(db, b, name) == <<b, name>> \in DOMAIN db.kv

Under(b, q) == Len(b) <= Len(q) /\ SubSeq(q, 1, Len(b)) = b

\* The keys of bucket b (the root when b is the empty path): leaf keys and
\* nested bucket names share one key space.
KeysOf(db, b) ==
    {x[2] : x \in {y \in DOMAIN db.kv : y[1] = b}}
        \cup {q[Len(q)] : q \in {r \in db.bk : Len(r) = Len(b) + 1 /\ Under(b, r)}}

\* The keys in cursor order (bytes.Compare): the empty string first, then
\* the keys by first byte, those with one first byte ordered by what follows.
RECURSIVE SortKeys(_), SortFrom(_, _, _)
SortKeys(S) ==
    IF S \ {<<>>} = {} THEN (IF <<>> \in S THEN <<<<>>>> ELSE <<>>)
    ELSE LET heads == {k[1] : k \in S \ {<<>>}}
             top == CHOOSE m \in heads : \A h \in heads : h <= m
         IN  (IF <<>> \in S THEN <<<<>>>> ELSE <<>>) \o SortFrom(S \ {<<>>}, 0, top)

\* the keys of S whose first byte is b or more, up to first byte top
SortFrom(S, b, top) ==
    IF b > top THEN <<>>
    ELSE LET tails == SortKeys({Tail(k) : k \in {x \in S : x[1] = b}})
         IN  [j \in 1..Len(tails) |-> <<b>> \o tails[j]] \o SortFrom(S, b + 1, top)

\* ------------------------------------------------- bbolt: buckets and keys
\* Tx.CreateBucketIfNotExists / Bucket.CreateBucketIfNotExists
CreateBucketIfNotExists(db, writable, b, name) ==
    IF ~writable THEN [db |-> db, err |-> ErrTxNotWritable]
    ELSE IF name = <<>> THEN [db |-> db, err |-> ErrBucketNameRequired]
    ELSE IF IsLeaf(db, b, name) THEN [db |-> db, err |-> ErrIncompatibleValue]
    ELSE IF IsBucket(db, b, name) THEN [db |-> db, err |-> NoErr]
    ELSE [db |-> [db EXCEPT !.bk = @ \cup {Child(b, name)},
                            !.sq = [q \in DOMAIN @ \cup {Child(b, name)} |->
                                       IF q = Child(b, name) THEN 0 ELSE @[q]]],
          err |-> NoErr]

\* Bucket.Get: nil when the key is absent or names a nested bucket
Get(db, b, key) == IF IsLeaf(db, b, key) THEN db.kv[<<b, key>>] ELSE NilBytes

\* Bucket.Put
Put(db, writable, b, key, value) ==
    IF ~writable THEN [db |-> db, err |-> ErrTxNotWritable]
    ELSE IF key = <<>> THEN [db |-> db, err |-> ErrKeyRequired]
    ELSE IF IsBucket(db, b, key) THEN [db |-> db, err |-> ErrIncompatibleValue]
    ELSE [db |-> [db EXCEPT !.kv = [x \in DOMAIN @ \cup {<<b, key>>} |->
                                       IF x = <<b, key>> THEN value ELSE @[x]]],
          err |-> NoErr]

\* Bucket.Delete: a missing key is no error, a nested bucket is
Delete(db, writable, b, key) ==
    IF ~writable THEN [db |-> db, err |-> ErrTxNotWritable]
    ELSE IF ~IsLeaf(db, b, key) /\ ~IsBucket(db, b, key) THEN [db |-> db, err |-> NoErr]
    ELSE IF IsBucket(db, b, key) THEN [db |-> db, err |-> ErrIncompatibleValue]
    ELSE [db |-> [db EXCEPT !.kv = [x \in DOMAIN @ \ {<<b, key>>} |-> @[x]]],
          err |-> NoErr]

\* Tx.DeleteBucket / Bucket.DeleteBucket: removes the bucket and all below it
DeleteBucketOf(db, writable, b, name) ==
    IF ~writable THEN [db |-> db, err |-> ErrTxNotWritable]
    ELSE IF ~IsLeaf(db, b, name) /\ ~IsBucket(db, b, name)
         THEN [db |-> db, err |-> ErrBucketNotFound]
    ELSE IF IsLeaf(db, b, name) THEN [db |-> db, err |-> ErrIncompatibleValue]
    ELSE LET c == Child(b, name)
         IN  [db |-> [bk |-> {q \in db.bk : ~Under(c, q)},
                      kv |-> [x \in {y \in DOMAIN db.kv : ~Under(c, y[1])} |-> db.kv[x]],
                      sq |-> [q \in {r \in DOMAIN db.sq : ~Under(c, r)} |-> db.sq[q]]],
              err |-> NoErr]

\* Bucket.NextSequence
NextSequence(db, writable, b) ==
    IF ~writable THEN [db |-> db, id |-> 0, err |-> ErrTxNotWritable]
    ELSE [db |-> [db EXCEPT !.sq[b] = @ + 1], id |-> db.sq[b] + 1, err |-> NoErr]

\* ------------------------------------------------------------ bbolt: cursor
\* A cursor over the sorted keys ks is the index of its element; a returned
\* index 0 is the nil key.
CursorFirst(ks) == IF Len(ks) = 0 THEN 0 ELSE 1

CursorSeek(ks, seek) ==
    LET S == {i \in 1..Len(ks) : BytesLeq(seek, ks[i])}
    IN  IF S = {} THEN 0 ELSE CHOOSE i \in S : \A j \in S : i <= j

\* Next past the last element returns nil and leaves the cursor on it.
CursorNext(ks, at) == IF at < Len(ks) THEN at + 1 ELSE 0

\* the value the cursor yields with key k: nil for a nested bucket
CursorValue(db, b, k) == Get(db, b, k)

\* --------------------------------------------------------- path resolution
\* Session.setBucket: walk the segments root-first; a missing segment, or an
\* empty path, is ErrPathNotFound.
RECURSIVE setBucketWalk(_, _, _)
setBucketWalk(db, path, index) ==
    IF index > Len(path) THEN [b |-> path, err |-> NoErr]
    ELSE IF ~IsBucket(db, SubSeq(path, 1, index - 1), path[index])
         THEN [b |-> <<>>, err |-> ErrPathNotFound]
    ELSE setBucketWalk(db, path, index + 1)

setBucket(db, path) ==
    IF Len(path) = 0 THEN [b |-> <<>>, err |-> ErrPathNotFound]
    ELSE setBucketWalk(db, path, 1)

\* Session.setBucketIfNotExist: create every missing segment; the segments
\* created before a failing one stay created in the transaction.
RECURSIVE setBucketIfNotExistWalk(_, _, _, _)
setBucketIfNotExistWalk(db, writable, path, index) ==
    IF index > Len(path) THEN [db |-> db, b |-> path, err |-> NoErr]
    ELSE LET c == CreateBucketIfNotExists(db, writable, SubSeq(path, 1, index - 1), path[index])
         IN  IF c.err # NoErr THEN [db |-> c.db, b |-> <<>>, err |-> c.err]
             ELSE setBucketIfNotExistWalk(c.db, writable, path, index + 1)

\* a creating resolution that creates the final segment only
setBucketIfNotExistLast(db, writable, path) ==
    IF Len(path) = 0 THEN [db |-> db, b |-> <<>>, err |-> ErrPathNotFound]
    ELSE LET c == CreateBucketIfNotExists(db, writable, SubSeq(path, 1, Len(path) - 1),
                                          path[Len(path)])
         IN  [db |-> c.db, b |-> IF c.err = NoErr THEN path ELSE <<>>, err |-> c.err]

setBucketIfNotExist(db, writable, path) ==
    IF Len(path) = 0 THEN [db |-> db, b |-> <<>>, err |-> ErrPathNotFound]
    ELSE setBucketIfNotExistWalk(db, writable, path, 1)

\* ------------------------------------------------------- Session operations
\* Every operation yields  db: the transaction's image after it,
\*   err: the error its closure produced (what s.err is set to),
\*   ret: the error returned to the caller,  out: the other results.

\* Read looking the key up before it reports the path
ReadKeyFirst(db, writable, path, key) ==
    LET r == setBucket(db, path)
    IN  IF r.err # NoErr \/ Get(db, r.b, key) = NilBytes
        THEN [db |-> db, err |-> ErrKeyNotFound, ret |-> ErrKeyNotFound, out |-> NilBytes]
        ELSE [db |-> db, err |-> NoErr, ret |-> NoErr, out |-> Get(db, r.b, key)]

Read(db, writable, path, key) ==
    LET r == setBucket(db, path)
    IN  IF r.err # NoErr
        THEN [db |-> db, err |-> ErrPathNotFound, ret |-> ErrPathNotFound, out |-> NilBytes]
        ELSE IF Get(db, r.b, key) = NilBytes
        THEN [db |-> db, err |-> ErrKeyNotFound, ret |-> ErrKeyNotFound, out |-> NilBytes]
        ELSE [db |-> db, err |-> NoErr, ret |-> NoErr, out |-> Get(db, r.b, key)]

\* The page loop shared by List, ListKeys and ListBuckets, for i = 0 up to
\* pageSize - 1: step 0 is First or Seek(pageToken), every later step is
\* Next, and the loop breaks at the nil key. first is the element of step 0,
\* n the number of steps that append a key, idx the elements appended and at
\* the cursor's element when the loop ends.
pageLoop(ks, pageToken) ==
    LET first == IF pageToken = <<>> THEN CursorFirst(ks) ELSE CursorSeek(ks, pageToken)
        n == IF first = 0 THEN 0
             ELSE IF Len(ks) - first + 1 < pageSize THEN Len(ks) - first + 1
             ELSE pageSize
    IN  [at |-> IF first = 0 THEN Len(ks) ELSE first + n - 1,
         idx |-> [j \in 1..n |-> first + j - 1]]

\* page with the cursor advanced twice before the token is taken
pageSkipsOne(ks, pageToken) ==
    LET l == pageLoop(ks, pageToken)
        n1 == CursorNext(ks, l.at)
        n == IF n1 = 0 THEN 0 ELSE CursorNext(ks, n1)
    IN  [keys |-> [j \in 1..Len(l.idx) |-> ks[l.idx[j]]],
         nextToken |-> IF n # 0 THEN ks[n] ELSE <<>>]

\* keys of the page and the token: the key the cursor's next step yields
page(ks, pageToken) ==
    LET l == pageLoop(ks, pageToken)
        n == CursorNext(ks, l.at)
    IN  [keys |-> [j \in 1..Len(l.idx) |-> ks[l.idx[j]]],
         nextToken |-> IF n # 0 THEN ks[n] ELSE <<>>]

List(db, writable, path, pageToken) ==
    LET r == setBucket(db, path)
    IN  IF r.err # NoErr
        THEN [db |-> db, err |-> r.err, ret |-> NoErr,
              out |-> [keys |-> <<>>, values |-> <<>>, nextToken |-> <<>>]]
        ELSE LET pg == page(SortKeys(KeysOf(db, r.b)), pageToken)
             IN  [db |-> db, err |-> NoErr, ret |-> NoErr,
                  out |-> [keys |-> pg.keys,
                           values |-> [j \in 1..Len(pg.keys) |-> CursorValue(db, r.b, pg.keys[j])],
                           nextToken |-> pg.nextToken]]

\* KeyExists counting the name of a nested bucket as a key with a value
KeyExistsCountsBuckets(db, writable, path, key) ==
    LET r == setBucket(db, path)
    IN  IF r.err # NoErr THEN [db |-> db, err |-> r.err, ret |-> NoErr, out |-> FALSE]
        ELSE IF ~IsLeaf(db, r.b, key) /\ ~IsBucket(db, r.b, key)
        THEN [db |-> db, err |-> ErrKeyNotFound, ret |-> NoErr, out |-> FALSE]
        ELSE [db |-> db, err |-> NoErr, ret |-> NoErr, out |-> TRUE]

KeyExists(db, writable, path, key) ==
    LET r == setBucket(db, path)
    IN  IF r.err # NoErr THEN [db |-> db, err |-> r.err, ret |-> NoErr, out |-> FALSE]
        ELSE IF Get(db, r.b, key) = NilBytes
        THEN [db |-> db, err |-> ErrKeyNotFound, ret |-> NoErr, out |-> FALSE]
        ELSE [db |-> db, err |-> NoErr, ret |-> NoErr, out |-> TRUE]

ListKeys(db, writable, path, pageToken) ==
    LET r == setBucket(db, path)
    IN  IF r.err # NoErr
        THEN [db |-> db, err |-> r.err, ret |-> NoErr,
              out |-> [keys |-> <<>>, nextToken |-> <<>>]]
        ELSE LET pg == page(SortKeys(KeysOf(db, r.b)), pageToken)
             IN  [db |-> db, err |-> NoErr, ret |-> NoErr,
                  out |-> [keys |-> pg.keys, nextToken |-> pg.nextToken]]

PrefixExists(db, writable, path, prefix) ==
    LET r == setBucket(db, path)
    IN  IF r.err # NoErr
        THEN [db |-> db, err |-> ErrPathNotFound, ret |-> ErrPathNotFound, out |-> FALSE]
        ELSE LET ks == SortKeys(KeysOf(db, r.b))
                 k == CursorSeek(ks, prefix)
             IN  [db |-> db, err |-> NoErr, ret |-> NoErr,
                  out |-> (k # 0 /\ HasPrefix(ks[k], prefix))]

\* a scan loop running from Seek(prefix) to the last key
scanLoopToEnd(ks, prefix, k, acc) ==
    IF k = 0 THEN acc ELSE acc \o SubSeq(ks, k, Len(ks))

\* the ReadScan loop: from Seek(prefix) while the key has the prefix
RECURSIVE scanLoop(_, _, _, _)
scanLoop(ks, prefix, k, acc) ==
    IF k = 0 \/ ~HasPrefix(ks[k], prefix) THEN acc
    ELSE scanLoop(ks, prefix, CursorNext(ks, k), Append(acc, ks[k]))

ReadScan(db, writable, path, prefix) ==
    LET r == setBucket(db, path)
    IN  IF r.err # NoErr
        THEN [db |-> db, err |-> ErrPathNotFound, ret |-> ErrPathNotFound,
              out |-> [keys |-> <<>>, values |-> <<>>]]
        ELSE LET ks == SortKeys(KeysOf(db, r.b))
                 keys == scanLoop(ks, prefix, CursorSeek(ks, prefix), <<>>)
             IN  [db |-> db, err |-> NoErr, ret |-> NoErr,
                  out |-> [keys |-> keys,
                           values |-> [j \in 1..Len(keys) |-> CursorValue(db, r.b, keys[j])]]]

\* NextSeq reading the counter without advancing it
NextSeqStale(db, writable, path) ==
    LET r == setBucketIfNotExist(db, writable, path)
    IN  IF r.err # NoErr THEN [db |-> r.db, err |-> r.err, ret |-> r.err, out |-> 0]
        ELSE [db |-> r.db, err |-> NoErr, ret |-> NoErr, out |-> r.db.sq[r.b]]

NextSeq(db, writable, path) ==
    LET r == setBucketIfNotExist(db, writable, path)
    IN  IF r.err # NoErr THEN [db |-> r.db, err |-> r.err, ret |-> r.err, out |-> 0]
        ELSE LET n == NextSequence(r.db, writable, r.b)
             IN  [db |-> n.db, err |-> n.err, ret |-> n.err, out |-> n.id]

\* Write resolving the path without putting the pair when the key is there
WriteKeepsOld(db, writable, path, key, value) ==
    LET r == setBucketIfNotExist(db, writable, path)
    IN  IF r.err # NoErr THEN [db |-> r.db, err |-> r.err, ret |-> r.err, out |-> <<>>]
        ELSE IF IsLeaf(r.db, r.b, key) THEN [db |-> r.db, err |-> NoErr, ret |-> NoErr, out |-> <<>>]
        ELSE LET w == Put(r.db, writable, r.b, key, value)
             IN  [db |-> w.db, err |-> w.err, ret |-> w.err, out |-> <<>>]

Write(db, writable, path, key, value) ==
    LET r == setBucketIfNotExist(db, writable, path)
    IN  IF r.err # NoErr THEN [db |-> r.db, err |-> r.err, ret |-> r.err, out |-> <<>>]
        ELSE LET w == Put(r.db, writable, r.b, key, value)
             IN  [db |-> w.db, err |-> w.err, ret |-> w.err, out |-> <<>>]

\* DeleteKey returning the resolution error
DeleteKeyReportsPath(db, writable, path, key) ==
    LET r == setBucketIfNotExist(db, writable, path)
    IN  IF r.err # NoErr THEN [db |-> r.db, err |-> r.err, ret |-> r.err, out |-> <<>>]
        ELSE LET d == Delete(r.db, writable, r.b, key)
             IN  [db |-> d.db, err |-> d.err, ret |-> d.err, out |-> <<>>]

\* a failed resolution is dropped: del returns nil
DeleteKey(db, writable, path, key) ==
    LET r == setBucketIfNotExist(db, writable, path)
    IN  IF r.err # NoErr THEN [db |-> r.db, err |-> NoErr, ret |-> NoErr, out |-> <<>>]
        ELSE LET d == Delete(r.db, writable, r.b, key)
             IN  [db |-> d.db, err |-> d.err, ret |-> d.err, out |-> <<>>]

\* BucketExists resolving with the creating walk
BucketExistsCreates(db, writable, path) ==
    LET r == setBucketIfNotExist(db, writable, path)
    IN  [db |-> r.db, err |-> r.err, ret |-> NoErr, out |-> (r.err = NoErr)]

BucketExists(db, writable, path) ==
    LET r == setBucket(db, path)
    IN  [db |-> db, err |-> r.err, ret |-> NoErr, out |-> (r.err = NoErr)]

CreateBucket(db, writable, path) ==
    LET r == setBucketIfNotExist(db, writable, path)
    IN  [db |-> r.db, err |-> r.err, ret |-> r.err, out |-> <<>>]

\* len(path) = 1 deletes from the transaction root and returns its error as
\* is; a longer path resolves the parent, and drops a failed resolution and
\* bolt.ErrBucketNotFound; path[:len(path)-1] of the empty path panics.
DeleteBucket(db, writable, path) ==
    IF Len(path) = 1
    THEN LET d == DeleteBucketOf(db, writable, <<>>, path[1])
         IN  [db |-> d.db, err |-> d.err, ret |-> d.err, out |-> <<>>]
    ELSE IF Len(path) = 0 THEN [db |-> db, err |-> Panic, ret |-> Panic, out |-> <<>>]
    ELSE LET r == setBucket(db, SubSeq(path, 1, Len(path) - 1))
         IN  IF r.err # NoErr THEN [db |-> db, err |-> NoErr, ret |-> NoErr, out |-> <<>>]
             ELSE LET d == DeleteBucketOf(db, writable, r.b, path[Len(path)])
                  IN  IF d.err = ErrBucketNotFound
                      THEN [db |-> d.db, err |-> NoErr, ret |-> NoErr, out |-> <<>>]
                      ELSE [db |-> d.db, err |-> d.err, ret |-> d.err, out |-> <<>>]

\* ListBuckets dropping the resolution error as List does
ListBucketsSwallows(db, writable, path, pageToken) ==
    IF Len(path) = 0
    THEN [db |-> db, err |-> NoErr, ret |-> NoErr,
          out |-> [keys |-> SortKeys(KeysOf(db, <<>>)), nextToken |-> <<>>]]
    ELSE LET r == setBucket(db, path)
         IN  IF r.err # NoErr
             THEN [db |-> db, err |-> r.err, ret |-> NoErr,
                   out |-> [keys |-> <<>>, nextToken |-> <<>>]]
             ELSE LET pg == page(SortKeys(KeysOf(db, r.b)), pageToken)
                  IN  [db |-> db, err |-> NoErr, ret |-> NoErr,
                       out |-> [keys |-> pg.keys, nextToken |-> pg.nextToken]]

\* the empty path lists the root buckets with tx.ForEach, whole and without
\* a token; a failed resolution is returned to the caller
ListBuckets(db, writable, path, pageToken) ==
    IF Len(path) = 0
    THEN [db |-> db, err |-> NoErr, ret |-> NoErr,
          out |-> [keys |-> SortKeys(KeysOf(db, <<>>)), nextToken |-> <<>>]]
    ELSE LET r == setBucket(db, path)
         IN  IF r.err # NoErr
             THEN [db |-> db, err |-> r.err, ret |-> r.err,
                   out |-> [keys |-> <<>>, nextToken |-> <<>>]]
             ELSE LET pg == page(SortKeys(KeysOf(db, r.b)), pageToken)
                  IN  [db |-> db, err |-> NoErr, ret |-> NoErr,
                       out |-> [keys |-> pg.keys, nextToken |-> pg.nextToken]]

\* ------------------------------------------------- transactions and closers
\* Tx.Rollback leaves the committed image; Tx.Commit installs the
\* transaction's image.
Rollback(committed, root) == committed

Commit(committed, root) == root

\* a read closer that commits
ReadCloserCommits(committed, session) == Commit(committed, session.root)

\* the closer returned by Store.ReadSession
ReadCloser(committed, session) == Rollback(committed, session.root)

\* a write closer whose rollback keeps the buckets the session created
WriteCloserKeepsBuckets(committed, session) ==
    IF session.err # NoErr
    THEN [committed EXCEPT !.bk = @ \cup session.root.bk,
                           !.sq = [q \in DOMAIN @ \cup session.root.bk |->
                                      IF q \in DOMAIN @ THEN @[q] ELSE 0]]
    ELSE Commit(committed, session.root)

\* the closer returned by Store.WriteSession
WriteCloser(committed, session) ==
    IF session.err # NoErr THEN Rollback(committed, session.root)
    ELSE Commit(committed, session.root)

\* ------------------------------------------------------------------- state
VARIABLES
    db,       \* the committed database image
    sess,     \* the read session "R" and the write session "W"
    last,     \* the last call: operation, session, error returned
    calls,    \* Session method calls so far
    opened,   \* sessions opened so far
    issued,   \* history: per path, the largest value any NextSeq has returned
    liveC,    \* history: per path, the largest value returned by a committed
              \* NextSeq since the container was last created
    pg        \* a caller paging through one container: the listing it uses,
              \* the token it holds and the pages it has concatenated

vars == <<db, sess, last, calls, opened, issued, liveC, pg>>

ZeroSeq == [p \in PathSet |-> 0]

\* Session fields: the transaction is open/writable/root, err is the error
\* field; base (the committed image when the session began), first (the
\* first error an operation recorded), live and reported (some call of the
\* write session returned an error to its caller, or panicked) are history.
Closed(w) ==
    [open |-> FALSE, writable |-> w, root |-> EmptyDB, err |-> NoErr,
     base |-> EmptyDB, first |-> NoErr, live |-> ZeroSeq, reported |-> FALSE]

Begin(w, committed, lv) ==
    [open |-> TRUE, writable |-> w, root |-> committed, err |-> NoErr,
     base |-> committed, first |-> NoErr, live |-> lv, reported |-> FALSE]

Call(op, s, ret) == [op |-> op, s |-> s, ret |-> ret]

\* a store earlier sessions left: bucket 1 holding the leaf key <<1, 1>> and
\* the nested bucket 1, itself holding one leaf key; NextSeq ran once on
\* bucket 1
SeededDB ==
    NextSeq(Write(Write(EmptyDB, TRUE, <<<<1>>>>, <<1, 1>>, <<7>>).db,
                  TRUE, <<<<1>>, <<1>>>>, <<1, 1>>, <<8>>).db,
            TRUE, <<<<1>>>>).db

SeqOf(image) == [p \in PathSet |-> IF p \in image.bk THEN image.sq[p] ELSE 0]

NoPaging == [op |-> "none", path |-> <<>>, token |-> <<>>, acc |-> <<>>, done |-> FALSE]

Init ==
    /\ db \in {EmptyDB, SeededDB}
    /\ sess = [s \in SIDs |-> Closed(s = "W")]
    /\ last = Call("none", "W", NoErr)
    /\ calls = 0
    /\ opened = 0
    /\ issued = SeqOf(db)
    /\ liveC = SeqOf(db)
    /\ pg = NoPaging

\* a read session that starts from the open writer's uncommitted image
ReadSessionDirty ==
    /\ ~sess["R"].open
    /\ opened < MaxSessions
    /\ sess' = [sess EXCEPT !["R"] =
                  Begin(FALSE, IF sess["W"].open THEN sess["W"].root ELSE db, liveC)]
    /\ opened' = opened + 1
    /\ last' = Call("ReadSession", "R", NoErr)
    /\ UNCHANGED <<db, calls, issued, liveC, pg>>

\* the last call of a closer carries the session error the closer found
\* Store.ReadSession: db.Begin(false)
ReadSession ==
    /\ ~sess["R"].open
    /\ opened < MaxSessions
    /\ sess' = [sess EXCEPT !["R"] = Begin(FALSE, db, liveC)]
    /\ opened' = opened + 1
    /\ last' = Call("ReadSession", "R", NoErr)
    /\ UNCHANGED <<db, calls, issued, liveC, pg>>

\* Store.WriteSession: db.Begin(true) waits for the open writer to finish
WriteSession ==
    /\ ~sess["W"].open
    /\ opened < MaxSessions
    /\ sess' = [sess EXCEPT !["W"] = Begin(TRUE, db, liveC)]
    /\ opened' = opened + 1
    /\ last' = Call("WriteSession", "W", NoErr)
    /\ UNCHANGED <<db, calls, issued, liveC, pg>>

CloseRead ==
    /\ sess["R"].open
    /\ db' = ReadCloser(db, sess["R"])
    /\ sess' = [sess EXCEPT !["R"] = Closed(FALSE)]
    /\ last' = Call("CloseRead", "R", sess["R"].err)
    /\ UNCHANGED <<calls, opened, issued, liveC, pg>>

CloseWrite ==
    /\ sess["W"].open
    /\ db' = WriteCloser(db, sess["W"])
    /\ liveC' = IF sess["W"].err # NoErr THEN liveC ELSE sess["W"].live
    /\ sess' = [sess EXCEPT !["W"] = Closed(TRUE)]
    /\ last' = Call("CloseWrite", "W", sess["W"].err)
    /\ UNCHANGED <<calls, opened, issued, pg>>

Max(a, b) == IF a >= b THEN a ELSE b

\* One call of a Session method: the closure runs on s.tx and its error is
\* assigned to s.err (a panic unwinds before the assignment).
Invoke(op, s, path, r) ==
    /\ sess[s].open
    /\ calls' = calls + 1
    /\ sess' = [sess EXCEPT ![s] =
                  [@ EXCEPT !.root = r.db,
                            !.err = IF r.err = Panic THEN @ ELSE r.err,
                            !.first = IF @ = NoErr /\ r.err # Panic THEN r.err ELSE @,
                            !.reported = @ \/ (sess[s].writable /\ r.ret # NoErr),
                            !.live = IF op = "NextSeq" /\ r.ret = NoErr
                                     THEN [@ EXCEPT ![path] = r.out]
                                     ELSE IF op = "DeleteBucket" /\ r.ret = NoErr
                                     THEN [q \in PathSet |-> IF Under(path, q) THEN 0 ELSE @[q]]
                                     ELSE @]]
    /\ issued' = IF op = "NextSeq" /\ r.ret = NoErr
                 THEN [issued EXCEPT ![path] = Max(@, r.out)]
                 ELSE issued
    /\ last' = Call(op, s, r.ret)
    /\ UNCHANGED <<db, opened, liveC>>

Step(op, s, path, r) ==
    /\ calls < MaxOps
    /\ Invoke(op, s, path, r)
    /\ UNCHANGED pg

Root(s) == sess[s].root
Wr(s) == sess[s].writable

DoRead(s, path, key) == Step("Read", s, path, Read(Root(s), Wr(s), path, key))

DoList(s, path, token) == Step("List", s, path, List(Root(s), Wr(s), path, token))

DoKeyExists(s, path, key) == Step("KeyExists", s, path, KeyExists(Root(s), Wr(s), path, key))

DoListKeys(s, path, token) == Step("ListKeys", s, path, ListKeys(Root(s), Wr(s), path, token))

DoPrefixExists(s, path, prefix) ==
    Step("PrefixExists", s, path, PrefixExists(Root(s), Wr(s), path, prefix))

DoReadScan(s, path, prefix) == Step("ReadScan", s, path, ReadScan(Root(s), Wr(s), path, prefix))

\* the counter is capped at MaxSeq
DoNextSeq(s, path) ==
    /\ path \in Root(s).bk => Root(s).sq[path] < MaxSeq
    /\ Step("NextSeq", s, path, NextSeq(Root(s), Wr(s), path))

DoWrite(s, path, key, value) ==
    Step("Write", s, path, Write(Root(s), Wr(s), path, key, value))

DoDeleteKey(s, path, key) == Step("DeleteKey", s, path, DeleteKey(Root(s), Wr(s), path, key))

DoBucketExists(s, path) == Step("BucketExists", s, path, BucketExists(Root(s), Wr(s), path))

DoCreateBucket(s, path) == Step("CreateBucket", s, path, CreateBucket(Root(s), Wr(s), path))

DoDeleteBucket(s, path) == Step("DeleteBucket", s, path, DeleteBucket(Root(s), Wr(s), path))

DoListBuckets(s, path, token) ==
    Step("ListBuckets", s, path, ListBuckets(Root(s), Wr(s), path, token))

Next ==
    \/ ReadSession
    \/ WriteSession
    \/ CloseRead
    \/ CloseWrite
    \/ \E s \in SIDs, path \in PathSet, key \in KeySet : DoRead(s, path, key)
    \/ \E s \in SIDs, path \in PathSet, token \in TokSet : DoList(s, path, token)
    \/ \E s \in SIDs, path \in PathSet, key \in KeySet : DoKeyExists(s, path, key)
    \/ \E s \in SIDs, path \in PathSet, token \in TokSet : DoListKeys(s, path, token)
    \/ \E s \in SIDs, path \in PathSet, prefix \in KeySet : DoPrefixExists(s, path, prefix)
    \/ \E s \in SIDs, path \in PathSet, prefix \in KeySet : DoReadScan(s, path, prefix)
    \/ \E s \in SIDs, path \in PathSet : DoNextSeq(s, path)
    \/ \E s \in SIDs, path \in PathSet, key \in KeySet, value \in ValSet :
           DoWrite(s, path, key, value)
    \/ \E s \in SIDs, path \in PathSet, key \in KeySet : DoDeleteKey(s, path, key)
    \/ \E s \in SIDs, path \in PathSet : DoBucketExists(s, path)
    \/ \E s \in SIDs, path \in PathSet : DoCreateBucket(s, path)
    \/ \E s \in SIDs, path \in PathSet : DoDeleteBucket(s, path)
    \/ \E s \in SIDs, path \in PathSet, token \in TokSet : DoListBuckets(s, path, token)

Spec == Init /\ [][Next]_vars

\* --------------------------------------------------------------- paging
\* A caller pages through one container of a store that earlier sessions
\* filled: it opens a read session, starts from the empty token and calls the
\* listing again with each token returned until the token is empty.
ChildKey(i) == <<(i \div 16) + 1, (i % 16) + 1>>

\* bucket 1 with n children, every fifth a nested bucket, the others leaves
FilledBucket(n) ==
    LET nested == {i \in 1..n : i % 5 = 0}
        bk == {<<<<1>>>>} \cup {<<<<1>>, ChildKey(i)>> : i \in nested}
    IN  [bk |-> bk,
         kv |-> [x \in {<<<<<<1>>>>, ChildKey(i)>> : i \in (1..n) \ nested} |-> <<7>>],
         sq |-> [q \in bk |-> 0]]

\* n top-level buckets
FilledRoot(n) ==
    LET bk == {<<ChildKey(i)>> : i \in 1..n}
    IN  [bk |-> bk, kv |-> [x \in {} |-> NilBytes], sq |-> [q \in bk |-> 0]]

InitPage ==
    /\ \E n \in 0..MaxChildren : db \in {FilledBucket(n), FilledRoot(n)}
    /\ sess = [s \in SIDs |-> IF s = "R" THEN Begin(FALSE, db, ZeroSeq) ELSE Closed(TRUE)]
    /\ last = Call("ReadSession", "R", NoErr)
    /\ calls = 0
    /\ opened = 1
    /\ issued = ZeroSeq
    /\ liveC = ZeroSeq
    /\ \E op \in {"List", "ListKeys", "ListBuckets"} :
           pg = [op |-> op,
                 path |-> IF <<<<1>>>> \in db.bk \/ op # "ListBuckets" THEN <<<<1>>>> ELSE <<>>,
                 token |-> <<>>, acc |-> <<>>, done |-> FALSE]

NextPageOf(op, r) ==
    /\ pg.op = op
    /\ ~pg.done
    /\ Invoke(op, "R", pg.path, r)
    /\ pg' = [pg EXCEPT !.token = r.out.nextToken,
                        !.acc = @ \o r.out.keys,
                        !.done = (r.out.nextToken = <<>>)]

PageList == NextPageOf("List", List(Root("R"), Wr("R"), pg.path, pg.token))

PageListKeys == NextPageOf("ListKeys", ListKeys(Root("R"), Wr("R"), pg.path, pg.token))

PageListBuckets == NextPageOf("ListBuckets", ListBuckets(Root("R"), Wr("R"), pg.path, pg.token))

NextPage == PageList \/ PageListKeys \/ PageListBuckets

SpecPage == InitPage /\ [][NextPage]_vars

\* ---------------------------------------------------------------- scans
\* A read and a write session, both open on a store that earlier sessions
\* filled, run prefix scans; pg holds the last one: its prefix in token, the
\* keys it returned in acc, and whether it found a match in done.
ScanPrefixes == {<<>>, <<1>>, <<2>>, <<2, 3>>, <<2, 3, 1>>, <<4>>}
ScanPaths == {<<>>, <<<<1>>>>, <<<<2>>>>, <<<<1>>, <<2, 2>>>>}

ScanKey(i) == <<(i \div 4) + 1, (i % 4) + 1>>

\* bucket 1 with n children, every fifth a nested bucket, the others leaves
\* whose values differ
ScanBucket(n) ==
    LET nested == {i \in 1..n : i % 5 = 0}
        bk == {<<<<1>>>>} \cup {<<<<1>>, ScanKey(i)>> : i \in nested}
    IN  [bk |-> bk,
         kv |-> [x \in {<<<<<<1>>>>, ScanKey(i)>> : i \in (1..n) \ nested} |-> <<7, x[2][2]>>],
         sq |-> [q \in bk |-> 0]]

InitScan ==
    /\ \E n \in 0..MaxScan : db = ScanBucket(n)
    /\ sess = [s \in SIDs |-> Begin(s = "W", db, ZeroSeq)]
    /\ last = Call("WriteSession", "W", NoErr)
    /\ calls = 0
    /\ opened = 2
    /\ issued = ZeroSeq
    /\ liveC = ZeroSeq
    /\ pg = NoPaging

ScanOf(op, s, path, prefix, r, keys, found) ==
    /\ calls < MaxOps
    /\ Invoke(op, s, path, r)
    /\ pg' = [op |-> op, path |-> path, token |-> prefix, acc |-> keys, done |-> found]

ScanPrefixExists(s, path, prefix) ==
    LET r == PrefixExists(Root(s), Wr(s), path, prefix)
    IN  ScanOf("PrefixExists", s, path, prefix, r, <<>>, r.out)

ScanReadScan(s, path, prefix) ==
    LET r == ReadScan(Root(s), Wr(s), path, prefix)
    IN  ScanOf("ReadScan", s, path, prefix, r, r.out.keys, r.out.keys # <<>>)

NextScan ==
    \/ \E s \in SIDs, path \in ScanPaths, prefix \in ScanPrefixes :
           ScanPrefixExists(s, path, prefix)
    \/ \E s \in SIDs, path \in ScanPaths, prefix \in ScanPrefixes :
           ScanReadScan(s, path, prefix)

SpecScan == InitScan /\ [][NextScan]_vars

\* C4: paging from the empty token until the token is empty yields, pages
\* concatenated, every child of the container exactly once in ascending
\* byte order (children: the container's keys, leaves and nested buckets).
C4_PaginationComplete ==
    pg.done =>
        /\ \A i \in 1..(Len(pg.acc) - 1) : BytesLess(pg.acc[i], pg.acc[i + 1])
        /\ {pg.acc[i] : i \in 1..Len(pg.acc)} = KeysOf(db, pg.path)

C4_Witness == pg.done /\ calls = 3 /\ Len(pg.acc) > 2 * pageSize /\ pg.op = "ListKeys"

\* ------------------------------------------------------ session claims
\* C1 (as claimed): a write session in which some operation recorded an
\* error rolls back when closed, whatever was invoked afterwards: the
\* committed store is again the one the session began with.
C1_RollbackAfterAnyError ==
    [][(CloseWrite /\ sess["W"].first # NoErr) => db' = sess["W"].base]_vars

\* C2 (as claimed): the error field of an open session is the first error
\* any of its operations recorded.
C2_StickyErrorIsFirst == \A s \in SIDs : sess[s].open => sess[s].err = sess[s].first

\* what a session whose transaction image is image reads at path, key
ReadOf(image, path, key) ==
    [ret |-> Read(image, FALSE, path, key).ret, out |-> Read(image, FALSE, path, key).out]

EmptyListing(out) == out.keys = <<>> /\ out.nextToken = <<>>

Unresolved(s, path) == path # <<>> /\ setBucket(Root(s), path).err # NoErr

C6_DeleteBucketIdempotent ==
    [][\A path \in PathSet :
           (path # <<>> /\ DoDeleteBucket("W", path)) =>
               /\ last'.ret = NoErr
               /\ ~BucketExists(sess'["W"].root, TRUE, path).out
      ]_vars

\* C7 (as claimed): DeleteKey(P, K) on a write session returns no error
\* whether or not K or P exists, KeyExists(P, K) is false afterwards, and a
\* second DeleteKey(P, K) changes nothing more.
C7_DeleteKeyIdempotent ==
    [][\A path \in PathSet, key \in KeySet :
           (last'.op = "DeleteKey" /\ DoDeleteKey("W", path, key)) =>
               /\ last'.ret = NoErr
               /\ ~KeyExists(sess'["W"].root, TRUE, path, key).out
               /\ DeleteKey(sess'["W"].root, TRUE, path, key).db = sess'["W"].root
      ]_vars

\* K names a container nested in the container at P
NamesNested(image, path, key) ==
    path # <<>> /\ setBucket(image, path).err = NoErr /\ IsBucket(image, path, key)

\* C7 (amended): DeleteKey(P, K) on a write session returns no error whether
\* or not K or P exists, except when K names a container nested in P: then
\* it returns the engine's incompatible-value error and changes nothing. In
\* every case KeyExists(P, K) is false afterwards and a second DeleteKey(P, K)
\* changes nothing more.
C7_DeleteKeyUnlessNested ==
    [][\A path \in PathSet, key \in KeySet :
           (last'.op = "DeleteKey" /\ DoDeleteKey("W", path, key)) =>
               /\ NamesNested(sess["W"].root, path, key) =>
                      (last'.ret = ErrIncompatibleValue /\ sess'["W"].root = sess["W"].root)
               /\ ~NamesNested(sess["W"].root, path, key) => last'.ret = NoErr
               /\ ~KeyExists(sess'["W"].root, TRUE, path, key).out
               /\ DeleteKey(sess'["W"].root, TRUE, path, key).db = sess'["W"].root
      ]_vars

\* a DeleteKey has just removed a pair the session began with
C7_Witness ==
    /\ last.op = "DeleteKey" /\ last.s = "W" /\ last.ret = NoErr
    /\ \E x \in DOMAIN sess["W"].base.kv :
           x \notin DOMAIN sess["W"].root.kv /\ x[1] \in sess["W"].root.bk

\* C8 (as claimed): a successful NextSeq(P) returns a value greater than
\* every value any earlier NextSeq(P) returned, also after a rollback and
\* after the container was deleted and created again.
C8_NextSeqNeverRepeats ==
    [][\A s \in SIDs, path \in PathSet :
           (DoNextSeq(s, path) /\ last'.ret = NoErr) =>
               NextSeq(Root(s), Wr(s), path).out > issued[path]
      ]_vars

\* C8 (amended): a successful NextSeq(P) returns a value greater than every
\* value returned by an earlier NextSeq(P) of the same session or of a
\* session that committed, made since the container at P was last created;
\* values a rolled-back session got, or got before the container (or a
\* container above it) was deleted, can be returned again.
C8_NextSeqIncreasesWhileKept ==
    [][\A s \in SIDs, path \in PathSet :
           (DoNextSeq(s, path) /\ last'.ret = NoErr) =>
               /\ NextSeq(Root(s), Wr(s), path).out > sess[s].live[path]
               /\ sess'[s].live[path] = NextSeq(Root(s), Wr(s), path).out
      ]_vars

\* NextSeq has returned a second value for one container
C8_Witness ==
    /\ last.op = "NextSeq" /\ last.ret = NoErr
    /\ \E path \in PathSet : sess["W"].live[path] = 2

\* C9: no call on a read session, and not its closer, changes the committed
\* store, and no call changes what the session's transaction holds: after
\* the closer the store is what the other sessions made of it.
C9_ReadSessionNoEffect ==
    [][/\ last'.s = "R" => db' = db
       /\ (sess["R"].open /\ sess'["R"].open) => sess'["R"].root = sess["R"].root
       /\ CloseRead => sess["R"].root = sess["R"].base
      ]_vars

\* a read session was closed right after a mutation was refused on it
C9_Witness == last.op = "CloseRead" /\ last.ret = ErrTxNotWritable /\ db = SeededDB

\* C10: the committed store changes only when a write session's closer
\* runs, and then to the image holding every mutation of the session or back
\* to the image the session began with; a session opened meanwhile reads the
\* committed store, and an open read session's image is never changed.
C10_AllOrNothing ==
    [][/\ CloseWrite => db' \in {sess["W"].base, sess["W"].root}
       /\ ~CloseWrite => db' = db
       /\ sess["W"].open => db = sess["W"].base
       /\ ReadSession => sess'["R"].root = db
       /\ (sess["R"].open /\ sess'["R"].open) => sess'["R"].root = sess["R"].root
      ]_vars

\* a write session has just committed changes
C10_Witness ==
    last.op = "CloseWrite" /\ last.ret = NoErr /\ db \notin {EmptyDB, SeededDB}

\* ------------------------------------------------- resolution and lookups
\* every segment of the path is a container nested in its predecessor; the
\* empty path names no container
Resolves(image, path) ==
    path # <<>> /\ \A i \in 1..Len(path) : SubSeq(path, 1, i) \in image.bk

\* C11: Read(P, K) returns ErrPathNotFound when P does not resolve, whatever
\* K is; ErrKeyNotFound when P resolves and K has no value in it; and the
\* stored value with a nil error otherwise.
C11_ReadPrecedence ==
    [][\A s \in SIDs, path \in PathSet, key \in KeySet :
           (last'.op = "Read" /\ DoRead(s, path, key)) =>
               LET r == Read(Root(s), Wr(s), path, key)
               IN  /\ sess'[s].err = last'.ret
                   /\ ~Resolves(Root(s), path) =>
                          (last'.ret = ErrPathNotFound /\ r.out = NilBytes)
                   /\ (Resolves(Root(s), path) /\ ~IsLeaf(Root(s), path, key)) =>
                          (last'.ret = ErrKeyNotFound /\ r.out = NilBytes)
                   /\ (Resolves(Root(s), path) /\ IsLeaf(Root(s), path, key)) =>
                          (last'.ret = NoErr /\ r.out = Root(s).kv[<<path, key>>])
      ]_vars

\* a Read found the container but no value for the key
C11_Witness ==
    /\ last.op = "Read" /\ last.ret = ErrKeyNotFound
    /\ sess[last.s].open /\ sess[last.s].root.kv # EmptyDB.kv

\* the operations that resolve their path with setBucket
ReadOnlyOps ==
    {"Read", "KeyExists", "BucketExists", "PrefixExists", "ReadScan",
     "List", "ListKeys", "ListBuckets"}

\* C12: Read, KeyExists, BucketExists, PrefixExists, ReadScan, List, ListKeys
\* and ListBuckets leave the containers and the key/value pairs of the
\* session's transaction as they were, in a read and in a write session,
\* whether they succeed or fail on a missing segment; the committed store is
\* not touched either.
C12_ReadResolutionCreatesNothing ==
    [][last'.op \in ReadOnlyOps =>
           /\ sess'[last'.s].root.bk = sess[last'.s].root.bk
           /\ sess'[last'.s].root.kv = sess[last'.s].root.kv
           /\ db' = db
      ]_vars

\* a lookup failed on a missing segment in a write session that had already
\* changed its image
C12_Witness ==
    /\ last.op \in ReadOnlyOps /\ last.s = "W" /\ sess["W"].open
    /\ sess["W"].err = ErrPathNotFound
    /\ sess["W"].root # sess["W"].base

\* C13: BucketExists(P) is true exactly when every segment of P is a
\* container nested in its predecessor, KeyExists(P, K) exactly when P
\* resolves and holds a value for K; otherwise (a missing segment, a final
\* segment that names a leaf key, an absent or empty key, a key that names a
\* nested container) they return false, and no error reaches the caller.
C13_ExistencePredicates ==
    [][/\ \A s \in SIDs, path \in PathSet :
              (last'.op = "BucketExists" /\ DoBucketExists(s, path)) =>
                  /\ last'.ret = NoErr
                  /\ BucketExists(Root(s), Wr(s), path).out = Resolves(Root(s), path)
       /\ \A s \in SIDs, path \in PathSet, key \in KeySet :
              (last'.op = "KeyExists" /\ DoKeyExists(s, path, key)) =>
                  /\ last'.ret = NoErr
                  /\ KeyExists(Root(s), Wr(s), path, key).out =
                         (Resolves(Root(s), path) /\ IsLeaf(Root(s), path, key))
      ]_vars

\* BucketExists was false for a path whose final segment names a leaf key
C13_Witness ==
    /\ last.op = "BucketExists" /\ sess[last.s].open
    /\ sess[last.s].err = ErrPathNotFound
    /\ \E path \in PathSet :
           /\ Len(path) = 2
           /\ Resolves(sess[last.s].root, SubSeq(path, 1, 1))
           /\ IsLeaf(sess[last.s].root, SubSeq(path, 1, 1), path[2])

\* the key begins with the bytes of x
BeginsWith(k, x) == Len(x) <= Len(k) /\ \A i \in 1..Len(x) : k[i] = x[i]

\* the entries of the container at path whose keys begin with x
Matching(image, path, x) == {k \in KeysOf(image, path) : BeginsWith(k, x)}

\* C14: for a container P that resolves, PrefixExists(P, x) is true exactly
\* when some entry of P has a key beginning with x, and ReadScan(P, x)
\* returns exactly the entries whose keys begin with x, each once, as
\* parallel key and value sequences in ascending key order (every entry for
\* the empty prefix); when P does not resolve both return ErrPathNotFound.
C14_PrefixMatching ==
    [][\A s \in SIDs, path \in ScanPaths, x \in ScanPrefixes :
           /\ (last'.op = "PrefixExists" /\ pg'.path = path /\ pg'.token = x
                  /\ ScanPrefixExists(s, path, x)) =>
                  LET r == PrefixExists(Root(s), Wr(s), path, x)
                  IN  IF Resolves(Root(s), path)
                      THEN last'.ret = NoErr /\ r.out = (Matching(Root(s), path, x) # {})
                      ELSE last'.ret = ErrPathNotFound /\ r.out = FALSE
           /\ (last'.op = "ReadScan" /\ pg'.path = path /\ pg'.token = x
                  /\ ScanReadScan(s, path, x)) =>
                  LET o == ReadScan(Root(s), Wr(s), path, x).out
                  IN  IF Resolves(Root(s), path)
                      THEN /\ last'.ret = NoErr
                           /\ Len(o.values) = Len(o.keys)
                           /\ {o.keys[j] : j \in 1..Len(o.keys)} = Matching(Root(s), path, x)
                           /\ \A j \in 1..(Len(o.keys) - 1) : BytesLess(o.keys[j], o.keys[j + 1])
                           /\ \A j \in 1..Len(o.keys) :
                                  o.values[j] = IF IsLeaf(Root(s), path, o.keys[j])
                                                THEN Root(s).kv[<<path, o.keys[j]>>]
                                                ELSE NilBytes
                           /\ x = <<>> => Len(o.keys) = Cardinality(KeysOf(Root(s), path))
                      ELSE last'.ret = ErrPathNotFound /\ o.keys = <<>> /\ o.values = <<>>
      ]_vars

\* a scan returned the four keys beginning with byte 2 from a container that
\* has keys before and after them
C14_Witness ==
    /\ pg.op = "ReadScan" /\ pg.token = <<2>> /\ Len(pg.acc) = 4
    /\ {<<1, 2>>, <<3, 1>>} \subseteq KeysOf(db, pg.path)

\* C15: a read session starts on the committed store as it is when the
\* session is opened and observes exactly that store for as long as it is
\* open: what an open writer has changed, and what a writer commits after
\* the read session started, never shows in what the read session reads.
C15_SnapshotIsolation ==
    [][/\ last'.op = "ReadSession" =>
              (sess'["R"].root = db /\ sess'["R"].base = db)
       /\ (sess["R"].open /\ sess'["R"].open) =>
              (sess'["R"].root = sess["R"].base /\ sess'["R"].base = sess["R"].base)
       /\ \A path \in PathSet, key \in KeySet :
              (last'.op = "Read" /\ DoRead("R", path, key)) =>
                  last'.ret = ReadOf(sess["R"].base, path, key).ret
      ]_vars

\* a read session has read after a writer committed changes behind it
C15_Witness ==
    /\ sess["R"].open /\ last.s = "R" /\ last.op \in ReadOnlyOps
    /\ db # sess["R"].base

\* the keys a listing returned, as a set
KeysIn(out) == {out.keys[j] : j \in 1..Len(out.keys)}

\* C16 (as claimed): every name ListBuckets(P, token) returns is a
\* container nested in P, never a leaf key of P; for the empty path the
\* result is exactly the top-level containers.
C16_ListBucketsOnlyContainers ==
    [][\A s \in SIDs, path \in PathSet, token \in TokSet :
           (last'.op = "ListBuckets" /\ last'.ret = NoErr /\ DoListBuckets(s, path, token)) =>
               LET o == ListBuckets(Root(s), Wr(s), path, token).out
               IN  /\ \A k \in KeysIn(o) : IsBucket(Root(s), path, k)
                   /\ path = <<>> => KeysIn(o) = {q[1] : q \in {r \in Root(s).bk : Len(r) = 1}}
      ]_vars

\* the keys of the container that sort after every key of the page
After(image, path, o) ==
    {k \in KeysOf(image, path) : \A j \in 1..Len(o.keys) : BytesLess(o.keys[j], k)}

\* a page of at most pageSize entries whose token is the key right after its
\* last key when children remain after it, and empty when none remains
BoundedPage(image, path, o) ==
    /\ Len(o.keys) <= pageSize
    /\ IF o.keys = <<>> \/ After(image, path, o) = {}
       THEN o.nextToken = <<>>
       ELSE /\ o.nextToken \in After(image, path, o)
            /\ \A k \in After(image, path, o) : BytesLeq(o.nextToken, k)

\* C17 (as claimed): every page List, ListKeys or ListBuckets returns, for
\* any path and for the empty path of ListBuckets too, has at most pageSize
\* entries, and its token is the key following the last key returned when
\* children remain and empty when none remains.
C17_PageSizeAndToken ==
    [][/\ (last'.op = "List" /\ PageList) =>
              BoundedPage(Root("R"), pg.path, List(Root("R"), Wr("R"), pg.path, pg.token).out)
       /\ (last'.op = "ListKeys" /\ PageListKeys) =>
              BoundedPage(Root("R"), pg.path, ListKeys(Root("R"), Wr("R"), pg.path, pg.token).out)
       /\ (last'.op = "ListBuckets" /\ PageListBuckets) =>
              BoundedPage(Root("R"), pg.path,
                          ListBuckets(Root("R"), Wr("R"), pg.path, pg.token).out)
      ]_vars

\* the session's image and the committed store are as before the call
Untouched(s) == sess'[s].root = sess[s].root /\ db' = db

\* C18 (as claimed): every operation other than ListBuckets, given the empty
\* path, completes normally with the ErrPathNotFound outcome (returned by
\* Read, Write, CreateBucket, NextSeq, PrefixExists and ReadScan; false from
\* KeyExists and BucketExists; an empty result from List and ListKeys; nil
\* from DeleteKey and DeleteBucket) and changes nothing.
C18_EmptyPathInvalid ==
    [][\A s \in SIDs :
           /\ \A key \in KeySet :
                  /\ (last'.op = "Read" /\ DoRead(s, <<>>, key)) =>
                         (last'.ret = ErrPathNotFound /\ Untouched(s))
                  /\ (last'.op = "PrefixExists" /\ DoPrefixExists(s, <<>>, key)) =>
                         (last'.ret = ErrPathNotFound /\ Untouched(s))
                  /\ (last'.op = "ReadScan" /\ DoReadScan(s, <<>>, key)) =>
                         (last'.ret = ErrPathNotFound /\ Untouched(s))
                  /\ (last'.op = "KeyExists" /\ DoKeyExists(s, <<>>, key)) =>
                         /\ last'.ret = NoErr /\ Untouched(s)
                         /\ ~KeyExists(Root(s), Wr(s), <<>>, key).out
                  /\ (last'.op = "DeleteKey" /\ DoDeleteKey(s, <<>>, key)) =>
                         (last'.ret = NoErr /\ Untouched(s))
                  /\ \A value \in ValSet :
                         (last'.op = "Write" /\ DoWrite(s, <<>>, key, value)) =>
                             (last'.ret = ErrPathNotFound /\ Untouched(s))
           /\ \A token \in TokSet :
                  /\ (last'.op = "List" /\ DoList(s, <<>>, token)) =>
                         /\ last'.ret = NoErr /\ Untouched(s)
                         /\ EmptyListing(List(Root(s), Wr(s), <<>>, token).out)
                  /\ (last'.op = "ListKeys" /\ DoListKeys(s, <<>>, token)) =>
                         /\ last'.ret = NoErr /\ Untouched(s)
                         /\ EmptyListing(ListKeys(Root(s), Wr(s), <<>>, token).out)
           /\ (last'.op = "CreateBucket" /\ DoCreateBucket(s, <<>>)) =>
                  (last'.ret = ErrPathNotFound /\ Untouched(s))
           /\ (last'.op = "NextSeq" /\ DoNextSeq(s, <<>>)) =>
                  (last'.ret = ErrPathNotFound /\ Untouched(s))
           /\ (last'.op = "BucketExists" /\ DoBucketExists(s, <<>>)) =>
                  /\ last'.ret = NoErr /\ Untouched(s)
                  /\ ~BucketExists(Root(s), Wr(s), <<>>).out
           /\ (last'.op = "DeleteBucket" /\ DoDeleteBucket(s, <<>>)) =>
                  (last'.ret = NoErr /\ Untouched(s))
      ]_vars

\* the non-empty prefixes of a path
Prefixes(path) == {SubSeq(path, 1, i) : i \in 1..Len(path)}

\* the call on session s kept every container, key and value that existed,
\* added no container beyond the segments of path and no key beyond written
Kept(s, path, written) ==
    /\ sess[s].root.bk \subseteq sess'[s].root.bk
    /\ (sess'[s].root.bk \ sess[s].root.bk) \subseteq Prefixes(path)
    /\ DOMAIN sess'[s].root.kv = DOMAIN sess[s].root.kv \cup written
    /\ \A x \in DOMAIN sess[s].root.kv \ written :
           sess'[s].root.kv[x] = sess[s].root.kv[x]

\* every segment of path is a container after the call on session s
AllExist(s, path) ==
    /\ path # <<>>
    /\ \A q \in Prefixes(path) : BucketExists(sess'[s].root, TRUE, q).out

\* C19: after a successful Write(P, K, V), CreateBucket(P) or NextSeq(P) on
\* a write session BucketExists(Q) is true for every non-empty prefix Q of
\* P, and the containers, keys and values that existed are unchanged, apart
\* from the written key.
C19_WriteResolutionCreates ==
    [][\A path \in PathSet :
           /\ \A key \in KeySet, value \in ValSet :
                  (last'.op = "Write" /\ last'.ret = NoErr /\ DoWrite("W", path, key, value)) =>
                      (AllExist("W", path) /\ Kept("W", path, {<<path, key>>}))
           /\ (last'.op = "CreateBucket" /\ last'.ret = NoErr /\ DoCreateBucket("W", path)) =>
                  (AllExist("W", path) /\ Kept("W", path, {}))
           /\ (last'.op = "NextSeq" /\ last'.ret = NoErr /\ DoNextSeq("W", path)) =>
                  (AllExist("W", path) /\ Kept("W", path, {}))
      ]_vars

\* one call has just created both segments of a two-segment path
C19_Witness ==
    /\ last.op \in {"Write", "CreateBucket", "NextSeq"} /\ last.s = "W" /\ last.ret = NoErr
    /\ sess["W"].open /\ calls = 1
    /\ {<<<<1>>>>, <<<<1>>, <<1>>>>} \subseteq sess["W"].root.bk \ sess["W"].base.bk

\* the children of the container at or after the token (all of them for the
\* empty token)
FromToken(image, path, token) ==
    {k \in KeysOf(image, path) : token = <<>> \/ BytesLeq(token, k)}

\* the page starts at the smallest child at or after the token and holds no
\* child before it
StartsAt(image, path, token, o) ==
    /\ KeysIn(o) \subseteq FromToken(image, path, token)
    /\ FromToken(image, path, token) # {} =>
           /\ o.keys # <<>>
           /\ \A k \in FromToken(image, path, token) : BytesLeq(o.keys[1], k)

\* C20 (as claimed): List, ListKeys and ListBuckets with a non-empty token T
\* start the page at the smallest child key at or after T and return no key
\* smaller than T; with the empty token the page starts at the first key;
\* for every path, and for ListBuckets on the empty path too.
C20_SeekSemantics ==
    [][\A s \in SIDs, path \in PathSet, token \in TokSet :
           /\ (last'.op = "List" /\ DoList(s, path, token) /\ Resolves(Root(s), path)) =>
                  StartsAt(Root(s), path, token, List(Root(s), Wr(s), path, token).out)
           /\ (last'.op = "ListKeys" /\ DoListKeys(s, path, token) /\ Resolves(Root(s), path)) =>
                  StartsAt(Root(s), path, token, ListKeys(Root(s), Wr(s), path, token).out)
           /\ (last'.op = "ListBuckets" /\ DoListBuckets(s, path, token)
                  /\ (path = <<>> \/ Resolves(Root(s), path))) =>
                  StartsAt(Root(s), path, token, ListBuckets(Root(s), Wr(s), path, token).out)
      ]_vars

\* C21 (as claimed): a write session in which every call reported success to
\* its caller (a nil error, or any boolean from KeyExists and BucketExists)
\* commits when its closer runs: the committed store becomes the image the
\* session built, every write and delete in it included.
C21_SuccessfulSessionCommits ==
    [][(last'.op = "CloseWrite" /\ CloseWrite /\ ~sess["W"].reported) =>
           db' = sess["W"].root]_vars

\* the image the closer of session s would leave committed after the call
AfterClose(s) ==
    IF Wr(s) THEN WriteCloser(db, sess'[s]) ELSE ReadCloser(db, sess'[s])

\* C22 (as claimed): DeleteKey(P, K) on a path P that does not resolve
\* changes nothing: every prefix Q of P that did not resolve before the call
\* still has BucketExists(Q) false after it, in the same session and (unless
\* another session committed Q meanwhile) in the store its closer leaves.
C22_DeleteKeyCreatesNothing ==
    [][\A s \in SIDs, path \in PathSet, key \in KeySet :
           (last'.op = "DeleteKey" /\ DoDeleteKey(s, path, key) /\ ~Resolves(Root(s), path)) =>
               /\ Untouched(s)
               /\ \A q \in Prefixes(path) :
                      ~Resolves(Root(s), q) =>
                          /\ ~BucketExists(sess'[s].root, Wr(s), q).out
                          /\ ~Resolves(db, q) => ~BucketExists(AfterClose(s), FALSE, q).out
      ]_vars

====
